---- MODULE Spec2Model ----
(***************************************************************************)
(* Model of subset_sum_ordering.py: the greedy partitioner                 *)
(* (subset_sum_ordering), the per-group digit mapper (build_digit_map) and *)
(* the exhaustive verifier (verify), driven as the __main__ block drives   *)
(* them (partition, then verify) or by a direct call of verify.            *)
(*                                                                         *)
(* Python lists and tuples are sequences; Python index j is TLA+ index     *)
(* j + 1.  None is the empty sequence <<>> and a value v that may be None  *)
(* is <<v>>.                                                               *)
(***************************************************************************)
EXTENDS Integers, Sequences, FiniteSets

---------------------------------------------------------------------------
(* Bounds of the model. *)

\* longest enumerated input list
MaxLen == 3
\* largest element of an enumerated input list
MaxVal == 4
\* most elements of a partition handed directly to verify
MaxDirectLen == 3
\* largest element of a partition handed directly to verify
MaxDirectVal == 3

---------------------------------------------------------------------------
(* Helpers over sequences. *)

RECURSIVE SeqSum(_)
SeqSum(s) == IF s = <<>> THEN 0 ELSE Head(s) + SeqSum(Tail(s))

Reverse(s) == [j \in 1..Len(s) |-> s[Len(s) + 1 - j]]

SeqsUpTo(S, n) == UNION {[1..m -> S] : m \in 0..n}

---------------------------------------------------------------------------
(* sorted(): an ascending, stable sort, as insertion sort. *)

RECURSIVE InsertInt(_, _)
InsertInt(x, s) ==
    IF s = <<>> THEN <<x>>
    ELSE IF x < Head(s) THEN <<x>> \o s
    ELSE <<Head(s)>> \o InsertInt(x, Tail(s))

RECURSIVE SortInts(_)
SortInts(s) ==
    IF s = <<>> THEN <<>>
    ELSE InsertInt(s[Len(s)], SortInts(SubSeq(s, 1, Len(s) - 1)))

\* mutant: the input is used in the order given
sorted_unsorted(nums) == nums

\* sorted(nums), line 30
sorted(nums) == SortInts(nums)

\* Python's order on (sum, mask) tuples: first component, then second
TupleLess(a, b) == a[1] < b[1] \/ (a[1] = b[1] /\ a[2] < b[2])

RECURSIVE InsertPair(_, _)
InsertPair(x, s) ==
    IF s = <<>> THEN <<x>>
    ELSE IF TupleLess(x, Head(s)) THEN <<x>> \o s
    ELSE <<Head(s)>> \o InsertPair(x, Tail(s))

RECURSIVE SortPairs(_)
SortPairs(s) ==
    IF s = <<>> THEN <<>>
    ELSE InsertPair(s[Len(s)], SortPairs(SubSeq(s, 1, Len(s) - 1)))

---------------------------------------------------------------------------
(* subset_sum_ordering *)

\* mutant: a group is also cut when the prefix sum equals the element
ShouldSplit_le(current_group, prefix_sum, num) ==
    current_group # <<>> /\ prefix_sum <= num

\* the test of line 36
ShouldSplit(current_group, prefix_sum, num) ==
    current_group # <<>> /\ prefix_sum < num

\* mutant: the last open group is never closed
FinishGroups_drop(groups, current_group) == groups

\* line 42
FinishGroups(groups, current_group) == Append(groups, current_group)

\* the for loop of lines 35-40 followed by line 42
RECURSIVE PartitionLoop(_, _, _, _)
PartitionLoop(rest, groups, current_group, prefix_sum) ==
    IF rest = <<>> THEN FinishGroups(groups, current_group)
    ELSE LET num == Head(rest)
             split == ShouldSplit(current_group, prefix_sum, num)
             groups1 == IF split THEN Append(groups, current_group) ELSE groups
             current1 == IF split THEN <<>> ELSE current_group
         IN  PartitionLoop(Tail(rest), groups1, Append(current1, num),
                           prefix_sum + num)

\* mutant: every radix is the group's size
Radices_len(groups) == [g \in 1..Len(groups) |-> Len(groups[g])]

\* line 43
Radices(groups) == [g \in 1..Len(groups) |-> 2 ^ Len(groups[g])]

\* returns <<partition, radices>>
subset_sum_ordering(nums) ==
    IF nums = <<>> THEN << <<>>, <<>> >>
    ELSE LET groups == PartitionLoop(sorted(nums), <<>>, <<>>, 0)
         IN  <<groups, Radices(groups)>>

---------------------------------------------------------------------------
(* build_digit_map *)

\* mask >> i & 1, with i a Python index
Bit(mask, i) == (mask \div (2 ^ i)) % 2

\* sum(group[i] for i in range(n) if mask >> i & 1)
RECURSIVE MaskSumFrom(_, _, _)
MaskSumFrom(group, mask, i) ==
    IF i >= Len(group) THEN 0
    ELSE (IF Bit(mask, i) = 1 THEN group[i + 1] ELSE 0)
         + MaskSumFrom(group, mask, i + 1)

MaskSum(group, mask) == MaskSumFrom(group, mask, 0)

\* the generator of lines 58-59, in mask order
MaskPairs(group) ==
    [m \in 1..(2 ^ Len(group)) |-> <<MaskSum(group, m - 1), m - 1>>]

\* mutant: the pairs are left in mask order
build_digit_map_unsorted(group) == MaskPairs(group)

build_digit_map(group) == SortPairs(MaskPairs(group))

---------------------------------------------------------------------------
(* verify: the enumeration of itertools.product *)

\* range(radices[j]) for j in range(k - 1, -1, -1): the radices, last first
ProductRadices(radices) == Reverse(radices)

\* the first tuple of the product
FirstTuple(rads) == [j \in 1..Len(rads) |-> 0]

\* the product is exhausted after the tuple of all largest digits
IsLastTuple(t, rads) == \A j \in 1..Len(rads) : t[j] = rads[j] - 1

\* the next tuple of the product: the rightmost position varies fastest
RECURSIVE NextTupleAt(_, _, _)
NextTupleAt(t, rads, j) ==
    IF j = 0 THEN t
    ELSE IF t[j] + 1 < rads[j] THEN [t EXCEPT ![j] = t[j] + 1]
    ELSE NextTupleAt([t EXCEPT ![j] = 0], rads, j - 1)

\* mutant: the leftmost position varies fastest
NextTuple_leftfirst(t, rads) ==
    IF \A j \in 1..Len(rads) : t[j] + 1 >= rads[j] THEN t
    ELSE LET j == CHOOSE c \in 1..Len(rads) :
                      /\ t[c] + 1 < rads[c]
                      /\ \A h \in 1..(c - 1) : t[h] + 1 >= rads[h]
         IN  [h \in 1..Len(rads) |->
                 IF h < j THEN 0 ELSE IF h = j THEN t[j] + 1 ELSE t[h]]

NextTuple(t, rads) == NextTupleAt(t, rads, Len(rads))

\* digits_msb_first[::-1], line 86
AlignDigits(digits_msb_first) == Reverse(digits_msb_first)

\* line 87
RECURSIVE TotalFrom(_, _, _)
TotalFrom(maps, digits, g) ==
    IF g > Len(maps) THEN 0
    ELSE maps[g][digits[g] + 1][1] + TotalFrom(maps, digits, g + 1)

Total(maps, digits) == TotalFrom(maps, digits, 1)

\* mutant: an equal total is reported as a violation too
IsViolation_le(prev, total) == prev # <<>> /\ total <= prev[1]

\* the test of line 89
IsViolation(prev, total) == prev # <<>> /\ total < prev[1]

\* lines 90-95
Diagnostic(at, digits, total, prev) ==
    [at_index |-> at, digits |-> digits, sum |-> total, prev_sum |-> prev]

---------------------------------------------------------------------------
(* The program: a caller, subset_sum_ordering, then verify's loop. *)

VARIABLES
    entry,            \* "main": the __main__ loop body; "verify": verify called directly
    nums,             \* the input list
    partition,        \* subset_sum_ordering's first result, verify's first argument
    radices,          \* subset_sum_ordering's second result, verify's second argument
    digit_maps,       \* verify's digit_maps
    i,                \* verify's enumerate index
    digits_msb_first, \* verify's current tuple
    prev_sum,         \* verify's prev_sum
    result,           \* verify's return value <<valid, diagnostic>>
    pc                \* "main", "verify", "loop", "done"

vars == <<entry, nums, partition, radices, digit_maps, i, digits_msb_first,
          prev_sum, result, pc>>

\* the examples of the __main__ block
examples == { <<1, 20, 5, 6, 2>>, <<1, 2, 3, 4>>, <<3, 5, 6, 7>>,
              <<1, 1, 2, 4>>, <<1, 2, 4, 8, 16>>, <<10>> }

\* the lists of positive integers the partitioner is run on
Inputs == examples \cup SeqsUpTo(1..MaxVal, MaxLen)

\* every way to cut the list s into consecutive non-empty groups
RECURSIVE Splittings(_)
Splittings(s) ==
    IF s = <<>> THEN {<<>>}
    ELSE UNION {{<<SubSeq(s, 1, c)>> \o rest :
                    rest \in Splittings(SubSeq(s, c + 1, Len(s)))} :
                c \in 1..Len(s)}

\* the partitions handed to verify directly: every list of positive integers,
\* in any order, cut into groups in every way, and the partitions with an
\* empty group beside at most one other group
DirectPartitions ==
    LET lists == SeqsUpTo(1..MaxDirectVal, MaxDirectLen)
    IN  UNION {Splittings(s) : s \in lists}
        \cup {<<s, <<>> >> : s \in lists}
        \cup {<< <<>>, s>> : s \in lists}
        \cup {<< <<>> >>}

Init ==
    /\ \/ /\ entry = "main"
          /\ nums \in Inputs
          /\ partition = <<>>
          /\ radices = <<>>
          /\ pc = "main"
       \/ /\ entry = "verify"
          /\ nums = <<>>
          /\ partition \in DirectPartitions
          /\ radices = Radices(partition)
          /\ pc = "verify"
    /\ digit_maps = <<>>
    /\ i = 0
    /\ digits_msb_first = <<>>
    /\ prev_sum = <<>>
    /\ result = <<>>

\* line 112: partition, radices = subset_sum_ordering(nums)
CallSubsetSumOrdering ==
    /\ pc = "main"
    /\ LET r == subset_sum_ordering(nums)
       IN  /\ partition' = r[1]
           /\ radices' = r[2]
    /\ pc' = "verify"
    /\ UNCHANGED <<entry, nums, digit_maps, i, digits_msb_first, prev_sum, result>>

\* lines 74-76: an empty partition passes at once
VerifyEmpty ==
    /\ pc = "verify"
    /\ Len(partition) = 0
    /\ result' = <<TRUE, <<>> >>
    /\ pc' = "done"
    /\ UNCHANGED <<entry, nums, partition, radices, digit_maps, i,
                   digits_msb_first, prev_sum>>

\* lines 78-85: the digit maps are built and the enumeration starts
VerifyStart ==
    /\ pc = "verify"
    /\ Len(partition) > 0
    /\ digit_maps' = [g \in 1..Len(partition) |-> build_digit_map(partition[g])]
    /\ prev_sum' = <<>>
    /\ i' = 0
    /\ digits_msb_first' = FirstTuple(ProductRadices(radices))
    /\ pc' = "loop"
    /\ UNCHANGED <<entry, nums, partition, radices, result>>

\* lines 86-95: the current tuple's total is below the previous one
LoopViolation ==
    /\ pc = "loop"
    /\ LET digits == AlignDigits(digits_msb_first)
           total == Total(digit_maps, digits)
       IN  /\ IsViolation(prev_sum, total)
           /\ result' = <<FALSE, <<Diagnostic(i, digits, total, prev_sum[1])>> >>
    /\ pc' = "done"
    /\ UNCHANGED <<entry, nums, partition, radices, digit_maps, i,
                   digits_msb_first, prev_sum>>

\* lines 86-89, 96: no violation, and the product has a next tuple
LoopAdvance ==
    /\ pc = "loop"
    /\ LET digits == AlignDigits(digits_msb_first)
           total == Total(digit_maps, digits)
       IN  /\ ~IsViolation(prev_sum, total)
           /\ prev_sum' = <<total>>
    /\ ~IsLastTuple(digits_msb_first, ProductRadices(radices))
    /\ digits_msb_first' = NextTuple(digits_msb_first, ProductRadices(radices))
    /\ i' = i + 1
    /\ UNCHANGED <<entry, nums, partition, radices, digit_maps, result, pc>>

\* lines 86-89, 96, 98: no violation, and the product is exhausted
LoopExhausted ==
    /\ pc = "loop"
    /\ LET digits == AlignDigits(digits_msb_first)
           total == Total(digit_maps, digits)
       IN  /\ ~IsViolation(prev_sum, total)
           /\ prev_sum' = <<total>>
    /\ IsLastTuple(digits_msb_first, ProductRadices(radices))
    /\ result' = <<TRUE, <<>> >>
    /\ pc' = "done"
    /\ UNCHANGED <<entry, nums, partition, radices, digit_maps, i,
                   digits_msb_first>>

Next ==
    \/ CallSubsetSumOrdering
    \/ VerifyEmpty
    \/ VerifyStart
    \/ LoopViolation
    \/ LoopAdvance
    \/ LoopExhausted

Spec == Init /\ [][Next]_vars

---------------------------------------------------------------------------
(* Vocabulary of the properties. *)

RECURSIVE Flatten(_)
Flatten(gs) == IF gs = <<>> THEN <<>> ELSE Head(gs) \o Flatten(Tail(gs))

Count(s, v) == Cardinality({j \in DOMAIN s : s[j] = v})

Elems(s) == {s[j] : j \in DOMAIN s}

SameElements(s, t) ==
    /\ Len(s) = Len(t)
    /\ \A v \in Elems(s) \cup Elems(t) : Count(s, v) = Count(t, v)

Ascending(s) == \A j \in 1..(Len(s) - 1) : s[j] <= s[j + 1]

Permutations(s) ==
    {[j \in 1..Len(s) |-> s[f[j]]] :
        f \in {h \in [1..Len(s) -> 1..Len(s)] :
                  \A a, b \in 1..Len(s) : h[a] = h[b] => a = b}}

\* every element exceeds the sum of the elements that come before it in
\* ascending order (equal elements taken in input order)
SuperIncreasing(s) ==
    \A j \in DOMAIN s :
        s[j] > SeqSum([h \in DOMAIN s |->
                          IF s[h] < s[j] \/ (s[h] = s[j] /\ h < j)
                          THEN s[h] ELSE 0])

\* the sum of the elements of group whose bit is set in mask
SelectedSum(group, mask) ==
    SeqSum([j \in 1..Len(group) |->
               IF (mask \div (2 ^ (j - 1))) % 2 = 1 THEN group[j] ELSE 0])

RECURSIVE Product(_)
Product(s) == IF s = <<>> THEN 1 ELSE Head(s) * Product(Tail(s))

\* the digit tuple at position n of the mixed-radix count in which group 1
\* is the least significant position
DigitsAt(n) ==
    [g \in 1..Len(radices) |->
        (n \div Product(SubSeq(radices, 1, g - 1))) % radices[g]]

\* the subset sum of the digit tuple at position n
TotalAt(n) ==
    SeqSum([g \in 1..Len(radices) |-> digit_maps[g][DigitsAt(n)[g] + 1][1]])

Partitioned == entry = "main" /\ pc # "main"

---------------------------------------------------------------------------
(* Properties. *)

\* C1: verify applied to the result of subset_sum_ordering returns
\* (True, None) for every non-empty list of positive integers.
C1_VerifyPasses ==
    (entry = "main" /\ nums # <<>> /\ pc = "done") => result = <<TRUE, <<>> >>

\* C2 as stated: subset_sum_ordering([1, 20, 5, 6, 2]) returns the
\* partition [[1,2,5,6],[20]] with radices [16, 2].
C2_Original ==
    (Partitioned /\ nums = <<1, 20, 5, 6, 2>>) =>
        /\ partition = << <<1, 2, 5, 6>>, <<20>> >>
        /\ radices = <<16, 2>>

\* C2, amended: subset_sum_ordering([1, 20, 5, 6, 2]) returns the partition
\* [[1],[2],[5,6],[20]] with radices [2, 2, 4, 2]: 1 < 2 and 1+2 < 5 cut a
\* group, 1+2+5 is not < 6, and 1+2+5+6 < 20 cuts the last one.
C2_MotivatingExample ==
    (Partitioned /\ nums = <<1, 20, 5, 6, 2>>) =>
        /\ partition = << <<1>>, <<2>>, <<5, 6>>, <<20>> >>
        /\ radices = <<2, 2, 4, 2>>

C2_Witness == Partitioned /\ nums = <<1, 20, 5, 6, 2>> /\ pc = "verify"

\* C3 as stated: subset_sum_ordering([1, 1, 2, 4]) returns the partition
\* [[1,1,2],[4]] with radices [8, 2].
C3_Original ==
    (Partitioned /\ nums = <<1, 1, 2, 4>>) =>
        /\ partition = << <<1, 1, 2>>, <<4>> >>
        /\ radices = <<8, 2>>

\* C3, amended: subset_sum_ordering([1, 1, 2, 4]) returns the single group
\* [[1,1,2,4]] with radices [16]: 1 is not < 1, 1+1 is not < 2 and 1+1+2 is
\* not < 4, so no group is ever cut.
C3_MultisetExample ==
    (Partitioned /\ nums = <<1, 1, 2, 4>>) =>
        /\ partition = << <<1, 1, 2, 4>> >>
        /\ radices = <<16>>

C3_Witness == Partitioned /\ nums = <<1, 1, 2, 4>> /\ pc = "done"

\* C4: for a non-empty input the groups are all non-empty and their
\* concatenation is the input in ascending order, each element once.
C4_PartitionIsSortedInput ==
    (Partitioned /\ nums # <<>>) =>
        /\ Len(partition) >= 1
        /\ \A g \in 1..Len(partition) : partition[g] # <<>>
        /\ Ascending(Flatten(partition))
        /\ SameElements(Flatten(partition), nums)

C4_Witness ==
    /\ Partitioned
    /\ Len(partition) >= 2
    /\ ~Ascending(nums)
    /\ \E a, b \in DOMAIN nums : a # b /\ nums[a] = nums[b]

\* C5: the sum of all elements of the groups before group g is strictly
\* less than every element of group g.
C5_GroupBoundary ==
    Partitioned =>
        \A g \in 2..Len(partition) :
            \A e \in 1..Len(partition[g]) :
                SeqSum(Flatten(SubSeq(partition, 1, g - 1))) < partition[g][e]

C5_Witness ==
    /\ Partitioned
    /\ Len(partition) >= 2
    /\ \E g \in 1..Len(partition) : Len(partition[g]) >= 2

\* C6: a digit map has 2^n entries, holds every bitmask exactly once with
\* the sum of the selected elements, is ascending by sum then bitmask, and
\* starts with (0, 0).
C6_DigitMap ==
    (pc \in {"loop", "done"} /\ digit_maps # <<>>) =>
        /\ Len(digit_maps) = Len(partition)
        /\ \A g \in 1..Len(partition) :
              LET m == digit_maps[g]
                  n == Len(partition[g])
              IN  /\ Len(m) = 2 ^ n
                  /\ \A mask \in 0..(2 ^ n - 1) :
                        /\ Cardinality({d \in 1..Len(m) : m[d][2] = mask}) = 1
                        /\ \A d \in 1..Len(m) :
                              m[d][2] = mask =>
                                  m[d][1] = SelectedSum(partition[g], mask)
                  /\ \A d \in 1..(Len(m) - 1) :
                        \/ m[d][1] < m[d + 1][1]
                        \/ m[d][1] = m[d + 1][1] /\ m[d][2] < m[d + 1][2]
                  /\ m[1] = <<0, 0>>

\* a group whose mask order differs from its sum order, and a tie
C6_Witness ==
    /\ pc = "loop"
    /\ \E g \in 1..Len(digit_maps) :
          /\ \E d \in 1..(Len(digit_maps[g]) - 1) :
                digit_maps[g][d][2] > digit_maps[g][d + 1][2]
          /\ \E d \in 1..(Len(digit_maps[g]) - 1) :
                digit_maps[g][d][1] = digit_maps[g][d + 1][1]

\* C7: a super-increasing input gives one singleton group per element, in
\* ascending order, and every radix is 2.
C7_SuperIncreasingSingletons ==
    (Partitioned /\ SuperIncreasing(nums)) =>
        /\ Len(partition) = Len(nums)
        /\ \A g \in 1..Len(partition) : Len(partition[g]) = 1
        /\ \A g \in 1..(Len(partition) - 1) :
              partition[g][1] < partition[g + 1][1]
        /\ SameElements(Flatten(partition), nums)
        /\ radices = [g \in 1..Len(nums) |-> 2]

C7_Witness ==
    Partitioned /\ SuperIncreasing(nums) /\ Len(nums) >= 3 /\ ~Ascending(nums)

\* the partition holds only singleton groups and each value exceeds the sum
\* of the values before it
SingletonSuperIncreasing ==
    /\ \A g \in 1..Len(partition) : Len(partition[g]) = 1
    /\ \A g \in 1..Len(partition) :
          partition[g][1] > SeqSum(Flatten(SubSeq(partition, 1, g - 1)))

\* C8: verify returns (True, None) on a partition of singleton groups with
\* super-increasing values.
C8_VerifyPassesOnSingletons ==
    (pc = "done" /\ SingletonSuperIncreasing) => result = <<TRUE, <<>> >>

C8_Witness ==
    /\ pc = "done"
    /\ SingletonSuperIncreasing
    /\ Len(partition) >= 2
    /\ i = Product(radices) - 1

\* C9: every permutation of the input gives the same partition and the
\* same radices.
C9_PermutationInvariant ==
    Partitioned =>
        \A p \in Permutations(nums) :
            subset_sum_ordering(p) = <<partition, radices>>

C9_Witness ==
    /\ Partitioned
    /\ Len(partition) >= 2
    /\ ~Ascending(nums)
    /\ Cardinality(Permutations(nums)) >= 3

\* C10: verify visits the tuples in mixed-radix order, group 1 fastest; it
\* stops at the first position whose total is below the previous total and
\* reports that position, its tuple, its total and the previous total;
\* otherwise it returns (True, None) after the last tuple.
C10_FirstViolation ==
    /\ pc = "loop" =>
          /\ i \in 0..(Product(radices) - 1)
          /\ \A g \in 1..Len(radices) :
                digits_msb_first[Len(radices) + 1 - g] = DigitsAt(i)[g]
          /\ \A n \in 1..(i - 1) : TotalAt(n) >= TotalAt(n - 1)
          /\ prev_sum = IF i = 0 THEN <<>> ELSE <<TotalAt(i - 1)>>
    /\ (pc = "done" /\ Len(partition) > 0 /\ result[1] = FALSE) =>
          LET diag == result[2][1]
          IN  /\ diag.at_index = i
              /\ i \in 1..(Product(radices) - 1)
              /\ diag.digits = DigitsAt(i)
              /\ diag.sum = TotalAt(i)
              /\ diag.prev_sum = TotalAt(i - 1)
              /\ TotalAt(i) < TotalAt(i - 1)
              /\ \A n \in 1..(i - 1) : TotalAt(n) >= TotalAt(n - 1)
    /\ (pc = "done" /\ Len(partition) > 0 /\ result[1] = TRUE) =>
          /\ result = <<TRUE, <<>> >>
          /\ i = Product(radices) - 1
          /\ \A n \in 1..i : TotalAt(n) >= TotalAt(n - 1)

\* a violation found after a tie between two earlier totals
C10_Witness ==
    /\ pc = "done"
    /\ result[1] = FALSE
    /\ result[2][1].at_index >= 3
    /\ \E n \in 1..(i - 1) : TotalAt(n) = TotalAt(n - 1)

====
